---- MODULE Spec2Model ----
(***************************************************************************)
(* State-machine model of static/js/main.js: the WebSocket connection with *)
(* its reconnect timer, the rolling chart histories, the timed recording   *)
(* session and the PDF export.                                             *)
(*                                                                         *)
(* Time is kept relative: every pending timer holds the milliseconds left  *)
(* until it is due, and Advance lets that many milliseconds pass.          *)
(***************************************************************************)
EXTENDS Integers, Sequences, FiniteSets, TLC

(* ------------------------------------------------------------------ *)
(* Program constants                                                   *)
(* ------------------------------------------------------------------ *)
MAX_HISTORY == 60
RECORDING_DURATION == 5 * 60 * 1000
RECONNECT_DELAY == 3000
TICK == 1000
KB == 1024

(* ------------------------------------------------------------------ *)
(* Bounds of the model                                                 *)
(* ------------------------------------------------------------------ *)
\* messages delivered in one behaviour
MaxMsgs == 2
\* deadline timeouts pending at the same time
MaxTimers == 2
\* one-second steps of the clock in one behaviour
MaxTicks == 1
\* exports suspended at the dashboard capture at the same time
MaxExports == 1
\* "no data" alerts raised in one behaviour
MaxAlerts == 1
\* snapshots in a recording whose statistics are computed
MaxBuf == 4
\* socket objects alive at the same time
MaxSockets == 2
\* reconnections that are told apart
MaxAttempts == 2
\* snapshots ingested before the first state of SpecWarm
Prefill == 59

VARIABLES
    sockets,          \* socket slot -> readyState of the WebSocket object in it
    ws,               \* slot of the socket the global ws refers to
    status,           \* class given to .status-dot by updateConnectionStatus
    reconnectTimers,  \* ms left of each pending setTimeout(connectWebSocket, 3000)
    historyData,      \* historyData: cpu, memory, network.upload, network.download
    isRecording,
    recordingData,
    elapsed,          \* Date.now() - recordingStartTime, while the session is active
    recordingTimer,   \* interval handle held by recordingTimer (0: null)
    intervals,        \* handles of the intervals that are live
    deadlineTimers,   \* ms left of each pending 5-minute auto-stop timeout
    recordingText,    \* text of #recordingText
    downloadDisabled, \* #downloadPdfBtn.disabled
    exports,          \* downloadPDF calls suspended at await html2canvas
    saved,            \* the last report given to pdf.save
    alerts,           \* alert('no data') dialogs raised
    lastStats,        \* what the last call of calculateStats() came to (<<>>: no call)
    received,         \* log: every payload delivered to ws.onmessage, in order
    attempts,         \* log: reconnections made (counted up to MaxAttempts)
    ticks             \* log: one-second steps of the clock (counted up to MaxTicks)

connVars == <<sockets, ws, status, reconnectTimers>>
recVars == <<isRecording, recordingData, elapsed, recordingTimer, intervals,
             deadlineTimers, recordingText, downloadDisabled>>
expVars == <<exports, saved, alerts, lastStats>>
logVars == <<received, attempts, ticks>>
vars == <<sockets, ws, status, reconnectTimers, historyData,
          isRecording, recordingData, elapsed, recordingTimer, intervals,
          deadlineTimers, recordingText, downloadDisabled,
          exports, saved, alerts, lastStats, received, attempts, ticks>>

(* ------------------------------------------------------------------ *)
(* Payloads                                                            *)
(* ------------------------------------------------------------------ *)
\* A snapshot section that is missing has has = FALSE.
Cpu(p, f) == [has |-> TRUE, percent |-> p, frequency |-> f]
NoCpu == [has |-> FALSE, percent |-> 0, frequency |-> FALSE]
Mem(p) == [has |-> TRUE, percent |-> p]
NoMem == [has |-> FALSE, percent |-> 0]
Net(u, d) == [has |-> TRUE, upload_bytes_per_sec |-> u, download_bytes_per_sec |-> d]
NoNet == [has |-> FALSE, upload_bytes_per_sec |-> 0, download_bytes_per_sec |-> 0]

\* cpu: data.cpu; memory: data.memory.virtual; network: data.network.speed
SnapA == [cpu |-> Cpu(10, TRUE), memory |-> Mem(30), network |-> Net(1 * KB, 2 * KB)]
SnapB == [cpu |-> Cpu(20, TRUE), memory |-> Mem(40), network |-> Net(3 * KB, 1 * KB)]
\* no cpu, no memory.virtual, no network.speed
SnapSparse == [cpu |-> NoCpu, memory |-> NoMem, network |-> NoNet]
\* a cpu section without frequency: updateCPU throws on cpu.frequency.current
SnapNoFreq == [cpu |-> Cpu(20, FALSE), memory |-> Mem(40), network |-> Net(1 * KB, 1 * KB)]

\* no cpu section only
SnapNoCpu == [cpu |-> NoCpu, memory |-> Mem(50), network |-> Net(2 * KB, 2 * KB)]

Snapshots == {SnapA, SnapB, SnapSparse, SnapNoFreq, SnapNoCpu}

\* What a socket can deliver: the JSON text of a snapshot, or text that is no JSON.
Json(d) == [json |-> TRUE, data |-> d]
Garbage == [json |-> FALSE, data |-> SnapSparse]
Payloads == {Json(d) : d \in Snapshots} \cup {Garbage}

\* mutant: text that is no JSON is taken as an empty object
JSONparse_lenient(raw) == [ok |-> TRUE, value |-> raw.data]

\* JSON.parse(event.data): the value, or a SyntaxError
JSONparse(raw) == IF raw.json THEN [ok |-> TRUE, value |-> raw.data]
                  ELSE [ok |-> FALSE, value |-> raw.data]

\* updateDashboard's renderers up to updateCharts: updateCPU dereferences
\* cpu.frequency.current of a cpu section that is present.
RenderThrows(data) == data.cpu.has /\ ~data.cpu.frequency

\* data.cpu?.percent || 0
CpuValue(data) == IF data.cpu.has THEN data.cpu.percent ELSE 0
\* data.memory?.virtual?.percent || 0
MemValue(data) == IF data.memory.has THEN data.memory.percent ELSE 0
\* (data.network?.speed?.upload_bytes_per_sec || 0) / 1024
UpValue(data) ==
    (IF data.network.has THEN data.network.upload_bytes_per_sec ELSE 0) \div KB
\* (data.network?.speed?.download_bytes_per_sec || 0) / 1024
DownValue(data) ==
    (IF data.network.has THEN data.network.download_bytes_per_sec ELSE 0) \div KB

(* ------------------------------------------------------------------ *)
(* Rolling histories                                                   *)
(* ------------------------------------------------------------------ *)
\* mutant: the eviction test is off by one
PushHistory_offByOne(arr, v) ==
    LET a == Append(arr, v)
    IN  IF Len(a) >= MAX_HISTORY THEN Tail(a) ELSE a

\* arr.push(v); if (arr.length > MAX_HISTORY) arr.shift();
PushHistory(arr, v) ==
    LET a == Append(arr, v)
    IN  IF Len(a) > MAX_HISTORY THEN Tail(a) ELSE a

\* mutant: the history of a metric whose section is missing is left alone
updateCharts_skipsMissing(h, data) ==
    LET up == Append(h.upload, UpValue(data))
        down == Append(h.download, DownValue(data))
        over == Len(up) > MAX_HISTORY
    IN  [cpu |-> IF data.cpu.has THEN PushHistory(h.cpu, CpuValue(data)) ELSE h.cpu,
         memory |-> IF data.memory.has THEN PushHistory(h.memory, MemValue(data))
                    ELSE h.memory,
         upload |-> IF ~data.network.has THEN h.upload
                    ELSE IF over THEN Tail(up) ELSE up,
         download |-> IF ~data.network.has THEN h.download
                      ELSE IF over THEN Tail(down) ELSE down]

updateCharts(h, data) ==
    LET up == Append(h.upload, UpValue(data))
        down == Append(h.download, DownValue(data))
        over == Len(up) > MAX_HISTORY
    IN  [cpu |-> PushHistory(h.cpu, CpuValue(data)),
         memory |-> PushHistory(h.memory, MemValue(data)),
         upload |-> IF over THEN Tail(up) ELSE up,
         download |-> IF over THEN Tail(down) ELSE down]

(* ------------------------------------------------------------------ *)
(* Statistics of a recording                                           *)
(* ------------------------------------------------------------------ *)
RECURSIVE SumSeq(_)
SumSeq(s) == IF s = <<>> THEN 0 ELSE Head(s) + SumSeq(Tail(s))

RECURSIVE MinSeq(_)
MinSeq(s) == IF Len(s) = 1 THEN Head(s)
             ELSE LET m == MinSeq(Tail(s)) IN IF Head(s) < m THEN Head(s) ELSE m

RECURSIVE MaxSeq(_)
MaxSeq(s) == IF Len(s) = 1 THEN Head(s)
             ELSE LET m == MaxSeq(Tail(s)) IN IF Head(s) > m THEN Head(s) ELSE m

\* mutant: the zeros that stand for missing fields are left out of the mean
Avg_skipsZeros(arr) ==
    LET kept == SelectSeq(arr, LAMBDA v : v # 0)
    IN  IF kept = <<>> THEN [kind |-> "NaN", num |-> 0, den |-> 0]
        ELSE [kind |-> "number", num |-> SumSeq(kept), den |-> Len(kept)]

\* arr.reduce((a, b) => a + b, 0) / arr.length, kept as the exact fraction;
\* 0 / 0 is NaN
Avg(arr) == IF arr = <<>> THEN [kind |-> "NaN", num |-> 0, den |-> 0]
            ELSE [kind |-> "number", num |-> SumSeq(arr), den |-> Len(arr)]
\* Math.min(...arr): Infinity for no arguments
MathMin(arr) == IF arr = <<>> THEN [kind |-> "Infinity", v |-> 0]
                ELSE [kind |-> "number", v |-> MinSeq(arr)]
\* Math.max(...arr): -Infinity for no arguments
MathMax(arr) == IF arr = <<>> THEN [kind |-> "-Infinity", v |-> 0]
                ELSE [kind |-> "number", v |-> MaxSeq(arr)]

MapSeq(s, F(_)) == [i \in 1..Len(s) |-> F(s[i])]

calculateStats(buf) ==
    LET cpuValues == MapSeq(buf, CpuValue)
        memValues == MapSeq(buf, MemValue)
        upValues == MapSeq(buf, UpValue)
        downValues == MapSeq(buf, DownValue)
    IN  [cpu |-> [avg |-> Avg(cpuValues), min |-> MathMin(cpuValues),
                  max |-> MathMax(cpuValues)],
         memory |-> [avg |-> Avg(memValues), min |-> MathMin(memValues),
                     max |-> MathMax(memValues)],
         network |-> [uploadAvg |-> Avg(upValues), downloadAvg |-> Avg(downValues)]]

\* a call of calculateStats(): the function has no throw statement, the optional
\* chaining reads every recorded snapshot safely and 0 / 0 does not throw, so the
\* call always returns its value
CallStats(buf) == [threw |-> FALSE, value |-> calculateStats(buf)]

(* ------------------------------------------------------------------ *)
(* Connection                                                          *)
(* ------------------------------------------------------------------ *)
Slots == 1..MaxSockets

\* a slot whose socket object is gone (never made, or closed for good)
FreeSlots == {s \in Slots : sockets[s] \in {"none", "closed"}}
LowestFree == CHOOSE s \in FreeSlots : \A t \in FreeSlots : s <= t

\* mutant: the reconnect delay is doubled
CloseSchedules_late == <<2 * RECONNECT_DELAY>>
\* mutant: close schedules no reconnection
CloseSchedules_none == <<>>
\* mutant: close schedules the reconnection twice
CloseSchedules_twice == <<RECONNECT_DELAY, RECONNECT_DELAY>>
\* mutant: error schedules a reconnection as close does
ErrorSchedules_reconnect == <<RECONNECT_DELAY>>

\* what ws.onclose schedules: setTimeout(connectWebSocket, 3000)
CloseSchedules == <<RECONNECT_DELAY>>
\* what ws.onerror schedules: nothing
ErrorSchedules == <<>>

\* updateConnectionStatus(status): the class of the dot, 'connected' or 'disconnected'
updateConnectionStatus(st) == st

\* connectWebSocket, run by the reconnect timeout that is due: a new socket, and
\* no call of updateConnectionStatus
connectWebSocket ==
    /\ reconnectTimers # <<>>
    /\ Head(reconnectTimers) = 0
    /\ FreeSlots # {}
    /\ reconnectTimers' = Tail(reconnectTimers)
    /\ sockets' = [sockets EXCEPT ![LowestFree] = "connecting"]
    /\ ws' = LowestFree
    /\ attempts' = IF attempts < MaxAttempts THEN attempts + 1 ELSE attempts
    /\ UNCHANGED <<status, historyData, recVars, expVars, received, ticks>>

\* ws.onopen
OnOpen(s) ==
    /\ sockets[s] = "connecting"
    /\ sockets' = [sockets EXCEPT ![s] = "open"]
    /\ status' = updateConnectionStatus("connected")
    /\ UNCHANGED <<ws, reconnectTimers, historyData, recVars, expVars, logVars>>

\* ws.onerror; the browser fires close after it (the socket is "failed" until then)
OnError(s) ==
    /\ sockets[s] \in {"connecting", "open"}
    /\ sockets' = [sockets EXCEPT ![s] = "failed"]
    /\ status' = updateConnectionStatus("disconnected")
    /\ reconnectTimers' = reconnectTimers \o ErrorSchedules
    /\ UNCHANGED <<ws, historyData, recVars, expVars, logVars>>

\* ws.onclose: a clean close of an open socket, or the close that follows an error
OnClose(s) ==
    /\ sockets[s] \in {"open", "failed"}
    /\ sockets' = [sockets EXCEPT ![s] = "closed"]
    /\ status' = updateConnectionStatus("disconnected")
    /\ reconnectTimers' = reconnectTimers \o CloseSchedules
    /\ UNCHANGED <<ws, historyData, recVars, expVars, logVars>>

(* ------------------------------------------------------------------ *)
(* Ingestion                                                           *)
(* ------------------------------------------------------------------ *)
\* mutant: the snapshot is recorded whether or not a session is active
onmessage_alwaysRecords(raw) ==
    LET parsed == JSONparse(raw)
        data == parsed.value
    IN  IF ~parsed.ok \/ RenderThrows(data)
        THEN [historyData |-> historyData, recordingData |-> recordingData]
        ELSE [historyData |-> updateCharts(historyData, data),
              recordingData |-> Append(recordingData, data)]

\* mutant: the snapshot is recorded before updateDashboard runs
onmessage_recordsFirst(raw) ==
    LET parsed == JSONparse(raw)
        data == parsed.value
        recorded == IF isRecording THEN Append(recordingData, data) ELSE recordingData
    IN  IF ~parsed.ok
        THEN [historyData |-> historyData, recordingData |-> recordingData]
        ELSE IF RenderThrows(data)
        THEN [historyData |-> historyData, recordingData |-> recorded]
        ELSE [historyData |-> updateCharts(historyData, data), recordingData |-> recorded]

\* ws.onmessage: the histories and the recording buffer after the handler, which
\* ends at the first exception (JSON.parse, then a renderer of updateDashboard)
onmessage(raw) ==
    LET parsed == JSONparse(raw)
        data == parsed.value
    IN  IF ~parsed.ok \/ RenderThrows(data)
        THEN [historyData |-> historyData, recordingData |-> recordingData]
        ELSE [historyData |-> updateCharts(historyData, data),
              recordingData |-> IF isRecording THEN Append(recordingData, data)
                                ELSE recordingData]

\* a message event of socket s
OnMessage(s, raw) ==
    /\ sockets[s] = "open"
    /\ Len(received) < MaxMsgs
    /\ historyData' = onmessage(raw).historyData
    /\ recordingData' = onmessage(raw).recordingData
    /\ received' = Append(received, [raw |-> raw, conn |-> attempts])
    /\ UNCHANGED <<connVars, isRecording, elapsed, recordingTimer, intervals,
                   deadlineTimers, recordingText, downloadDisabled, expVars,
                   attempts, ticks>>

(* ------------------------------------------------------------------ *)
(* Recording                                                           *)
(* ------------------------------------------------------------------ *)
Handles == 1..(MaxTimers + 1)
\* setInterval returns a handle that no interval made before it has
FreshHandles == {h \in Handles : h \notin intervals /\ h # recordingTimer}
FreshHandle == CHOOSE h \in FreshHandles : \A g \in FreshHandles : h <= g

\* mutant: the buffer of the previous session is kept
startRecording_keepsBuffer ==
    /\ Len(deadlineTimers) < MaxTimers
    /\ FreshHandles # {}
    /\ isRecording' = TRUE
    /\ recordingData' = recordingData
    /\ elapsed' = 0
    /\ recordingText' = "recording"
    /\ downloadDisabled' = TRUE
    /\ recordingTimer' = FreshHandle
    /\ intervals' = intervals \cup {FreshHandle}
    /\ deadlineTimers' = Append(deadlineTimers, RECORDING_DURATION)

\* mutant: the download button is left as it was
startRecording_buttonEnabled ==
    /\ Len(deadlineTimers) < MaxTimers
    /\ FreshHandles # {}
    /\ isRecording' = TRUE
    /\ recordingData' = <<>>
    /\ elapsed' = 0
    /\ recordingText' = "recording"
    /\ downloadDisabled' = downloadDisabled
    /\ recordingTimer' = FreshHandle
    /\ intervals' = intervals \cup {FreshHandle}
    /\ deadlineTimers' = Append(deadlineTimers, RECORDING_DURATION)

\* the timeout armed by startRecording is never cleared: its handle is not kept
startRecording ==
    /\ Len(deadlineTimers) < MaxTimers
    /\ FreshHandles # {}
    /\ isRecording' = TRUE
    /\ recordingData' = <<>>
    /\ elapsed' = 0
    /\ recordingText' = "recording"
    /\ downloadDisabled' = TRUE
    /\ recordingTimer' = FreshHandle
    /\ intervals' = intervals \cup {FreshHandle}
    /\ deadlineTimers' = Append(deadlineTimers, RECORDING_DURATION)

\* mutant: the stop leaves the display interval running
stopRecording_keepsInterval ==
    /\ isRecording' = FALSE
    /\ intervals' = intervals
    /\ recordingText' = "completed"
    /\ downloadDisabled' = FALSE
    /\ UNCHANGED <<recordingData, elapsed, recordingTimer>>

\* mutant: the stop empties the buffer
stopRecording_clearsBuffer ==
    /\ isRecording' = FALSE
    /\ intervals' = intervals \ {recordingTimer}
    /\ recordingText' = "completed"
    /\ downloadDisabled' = FALSE
    /\ recordingData' = <<>>
    /\ UNCHANGED <<elapsed, recordingTimer>>

stopRecording ==
    /\ isRecording' = FALSE
    /\ intervals' = intervals \ {recordingTimer}
    /\ recordingText' = "completed"
    /\ downloadDisabled' = FALSE
    /\ UNCHANGED <<recordingData, elapsed, recordingTimer>>

\* click on #startRecordingBtn
toggleRecording ==
    /\ IF ~isRecording
       THEN startRecording
       ELSE stopRecording /\ UNCHANGED deadlineTimers
    /\ UNCHANGED <<connVars, historyData, expVars, logVars>>

\* the callback of setTimeout(..., RECORDING_DURATION) of a startRecording
DeadlineFires ==
    /\ deadlineTimers # <<>>
    /\ Head(deadlineTimers) = 0
    /\ deadlineTimers' = Tail(deadlineTimers)
    /\ IF isRecording
       THEN stopRecording
       ELSE UNCHANGED <<isRecording, recordingData, elapsed, recordingTimer,
                        intervals, recordingText, downloadDisabled>>
    /\ UNCHANGED <<connVars, historyData, expVars, logVars>>

(* ------------------------------------------------------------------ *)
(* Time                                                                *)
(* ------------------------------------------------------------------ *)
Elapse(timers, d) == [i \in 1..Len(timers) |-> timers[i] - d]
Pending == deadlineTimers \o reconnectTimers

\* d ms pass: no pending timer is overrun. The clock moves to the instant the
\* next timer is due, or by one second.
Advance(d) ==
    /\ d > 0
    /\ \A i \in 1..Len(Pending) : Pending[i] >= d
    /\ \/ (\E i \in 1..Len(Pending) : Pending[i] = d) /\ ticks' = ticks
       \/ d = TICK /\ ticks < MaxTicks /\ ticks' = ticks + 1
    /\ deadlineTimers' = Elapse(deadlineTimers, d)
    /\ reconnectTimers' = Elapse(reconnectTimers, d)
    /\ elapsed' = IF isRecording THEN elapsed + d ELSE elapsed
    /\ UNCHANGED <<sockets, ws, status, historyData, isRecording, recordingData,
                   recordingTimer, intervals, recordingText, downloadDisabled,
                   expVars, received, attempts>>

Durations == {TICK} \cup {Pending[i] : i \in 1..Len(Pending)}

(* ------------------------------------------------------------------ *)
(* Export                                                              *)
(* ------------------------------------------------------------------ *)
\* downloadPDF up to await html2canvas(...): the alert, or the report so far
downloadPDF ==
    IF Len(recordingData) = 0
    THEN /\ alerts < MaxAlerts
         /\ alerts' = alerts + 1
         /\ UNCHANGED <<exports, saved, lastStats>>
    ELSE /\ Len(exports) < MaxExports
         /\ exports' = Append(exports, [duration |-> Len(recordingData),
                                         stats |-> CallStats(recordingData).value])
         /\ lastStats' = <<CallStats(recordingData)>>
         /\ UNCHANGED <<alerts, saved>>

\* click on #downloadPdfBtn; a disabled button gets no click
ClickDownload ==
    /\ ~downloadDisabled
    /\ downloadPDF
    /\ UNCHANGED <<connVars, historyData, recVars, logVars>>

\* mutant: the statistics are computed when the capture has settled
CaptureSettles_statsAfterCapture(i, captured) ==
    /\ i \in 1..Len(exports)
    /\ saved' = <<[duration |-> Len(recordingData), stats |-> calculateStats(recordingData),
                   snapshot |-> captured]>>
    /\ exports' = SubSeq(exports, 1, i - 1) \o SubSeq(exports, i + 1, Len(exports))
    /\ UNCHANGED <<alerts, lastStats, connVars, historyData, recVars, logVars>>

\* mutant: a capture that fails ends the export without a report
CaptureSettles_abortsOnFailure(i, captured) ==
    /\ i \in 1..Len(exports)
    /\ saved' = IF captured
                THEN <<[duration |-> exports[i].duration, stats |-> exports[i].stats,
                        snapshot |-> captured]>>
                ELSE saved
    /\ exports' = SubSeq(exports, 1, i - 1) \o SubSeq(exports, i + 1, Len(exports))
    /\ UNCHANGED <<alerts, lastStats, connVars, historyData, recVars, logVars>>

\* html2canvas settles (captured or rejected); downloadPDF resumes and saves
CaptureSettles(i, captured) ==
    /\ i \in 1..Len(exports)
    /\ saved' = <<[duration |-> exports[i].duration, stats |-> exports[i].stats,
                   snapshot |-> captured]>>
    /\ exports' = SubSeq(exports, 1, i - 1) \o SubSeq(exports, i + 1, Len(exports))
    /\ UNCHANGED <<alerts, lastStats, connVars, historyData, recVars, logVars>>

\* calculateStats() evaluated on the buffer as it is, outside downloadPDF
Summarize ==
    /\ lastStats' = <<CallStats(recordingData)>>
    /\ UNCHANGED <<exports, saved, alerts, connVars, historyData, recVars, logVars>>

(* ------------------------------------------------------------------ *)
(* Specifications                                                      *)
(* ------------------------------------------------------------------ *)
EmptyHistory == [cpu |-> <<>>, memory |-> <<>>, upload |-> <<>>, download |-> <<>>]

\* the page after DOMContentLoaded: connectWebSocket has run once; what the
\* markup gives the status dot, the recording text and the download button
\* is not set by the script
InitPage ==
    /\ ws = 1
    /\ reconnectTimers = <<>>
    /\ isRecording = FALSE
    /\ recordingData = <<>>
    /\ elapsed = 0
    /\ recordingTimer = 0
    /\ intervals = {}
    /\ deadlineTimers = <<>>
    /\ recordingText = "unset"
    /\ downloadDisabled \in BOOLEAN
    /\ exports = <<>>
    /\ saved = <<>>
    /\ alerts = 0
    /\ lastStats = <<>>
    /\ received = <<>>
    /\ attempts = 0
    /\ ticks = 0

Init ==
    /\ InitPage
    /\ sockets = [s \in Slots |-> IF s = 1 THEN "connecting" ELSE "none"]
    /\ status = "unset"
    /\ historyData = EmptyHistory

\* every handler and event of the page
Next ==
    \/ connectWebSocket
    \/ \E s \in Slots : OnOpen(s)
    \/ \E s \in Slots : OnError(s)
    \/ \E s \in Slots : OnClose(s)
    \/ \E s \in Slots, raw \in Payloads : OnMessage(s, raw)
    \/ toggleRecording
    \/ DeadlineFires
    \/ \E d \in Durations : Advance(d)
    \/ ClickDownload
    \/ \E i \in 1..MaxExports, captured \in BOOLEAN : CaptureSettles(i, captured)

Spec == Init /\ [][Next]_vars

\* The focused specifications below restrict Next to the handlers of one concern,
\* which keeps the exhaustive search small; the handlers left out do not write
\* the variables of that concern.

\* the recording session and its clock, on a connection that stays up
NextSession ==
    \/ \E s \in Slots : OnOpen(s)
    \/ \E s \in Slots, raw \in Payloads : OnMessage(s, raw)
    \/ toggleRecording
    \/ DeadlineFires
    \/ \E d \in Durations : Advance(d)

SpecSession == Init /\ [][NextSession]_vars

\* the export of sessions that the user stops
NextExport ==
    \/ \E s \in Slots : OnOpen(s)
    \/ \E s \in Slots, raw \in Payloads : OnMessage(s, raw)
    \/ toggleRecording
    \/ ClickDownload
    \/ \E i \in 1..MaxExports, captured \in BOOLEAN : CaptureSettles(i, captured)

SpecExport == Init /\ [][NextExport]_vars

\* the connection, its reconnect loop and the messages it delivers
NextConn ==
    \/ connectWebSocket
    \/ \E s \in Slots : OnOpen(s)
    \/ \E s \in Slots : OnError(s)
    \/ \E s \in Slots : OnClose(s)
    \/ \E s \in Slots, raw \in Payloads : OnMessage(s, raw)
    \/ \E d \in Durations : Advance(d)

SpecConn == Init /\ [][NextConn]_vars

\* Scheduling of the connection: a timer that is due runs and time passes (the
\* event loop), the browser fires close after an error, and the source accepts a
\* connection if it is asked again and again.
SpecLive ==
    /\ Init
    /\ [][NextConn]_vars
    /\ WF_vars(connectWebSocket)
    /\ WF_vars(\E d \in Durations : Advance(d) /\ ticks' = ticks)
    /\ WF_vars(\E s \in Slots : sockets[s] = "failed" /\ OnClose(s))
    /\ SF_vars(\E s \in Slots : OnOpen(s))

\* The page after Prefill snapshots have been ingested on its first connection.
WarmRaw(i) == IF i % 3 = 0 THEN Json(SnapSparse)
              ELSE IF i % 3 = 1 THEN Json(SnapA) ELSE Json(SnapB)
WarmLog == [i \in 1..Prefill |-> WarmRaw(i)]

WarmData == [i \in 1..Prefill |-> JSONparse(WarmLog[i]).value]
\* the values pushed by the Prefill snapshots (Prefill is at most MAX_HISTORY + 1)
WarmCpu == MapSeq(WarmData, CpuValue)
WarmMemory == MapSeq(WarmData, MemValue)
WarmUpload == MapSeq(WarmData, UpValue)
WarmDownload == MapSeq(WarmData, DownValue)
Newest(seq) == IF Len(seq) <= MAX_HISTORY THEN seq ELSE Tail(seq)
WarmHistory ==
    [cpu |-> Newest(WarmCpu), memory |-> Newest(WarmMemory),
     upload |-> Newest(WarmUpload), download |-> Newest(WarmDownload)]

InitWarm ==
    /\ InitPage
    /\ sockets = [s \in Slots |-> IF s = 1 THEN "open" ELSE "none"]
    /\ status = "connected"
    /\ historyData = WarmHistory

SpecWarm == InitWarm /\ [][NextConn]_vars

\* recording sessions on the page with the prefilled histories
NextWarmSession ==
    \/ \E s \in Slots, raw \in Payloads : OnMessage(s, raw)
    \/ toggleRecording
    \/ DeadlineFires
    \/ \E d \in Durations : Advance(d)

SpecWarmSession == InitWarm /\ [][NextWarmSession]_vars

\* The end of a session and what follows it, with every handler and event of
\* the page: the session is Active, one second before its deadline, with what it
\* has recorded so far; the user clicks the toggle only to stop it.
InitEnding ==
    /\ recordingData \in {<<>>, <<SnapB>>}
    /\ historyData = [cpu |-> MapSeq(recordingData, CpuValue),
                      memory |-> MapSeq(recordingData, MemValue),
                      upload |-> MapSeq(recordingData, UpValue),
                      download |-> MapSeq(recordingData, DownValue)]
    /\ received = <<>>
    /\ sockets = [s \in Slots |-> IF s = 1 THEN "open" ELSE "none"]
    /\ ws = 1
    /\ status = "connected"
    /\ reconnectTimers = <<>>
    /\ isRecording = TRUE
    /\ elapsed = RECORDING_DURATION - TICK
    /\ recordingTimer = 1
    /\ intervals = {1}
    /\ deadlineTimers = <<TICK>>
    /\ recordingText = "recording"
    /\ downloadDisabled = TRUE
    /\ exports = <<>>
    /\ saved = <<>>
    /\ alerts = 0
    /\ lastStats = <<>>
    /\ attempts = 0
    /\ ticks = 0

NextEnding ==
    \/ connectWebSocket
    \/ \E s \in Slots : OnOpen(s)
    \/ \E s \in Slots : OnError(s)
    \/ \E s \in Slots : OnClose(s)
    \/ \E s \in Slots, raw \in {Json(SnapA), Garbage} : OnMessage(s, raw)
    \/ isRecording /\ toggleRecording
    \/ DeadlineFires
    \/ \E d \in Durations : Advance(d)
    \/ ClickDownload
    \/ \E i \in 1..MaxExports, captured \in BOOLEAN : CaptureSettles(i, captured)

SpecEnding == InitEnding /\ [][NextEnding]_vars

\* The page after a session that recorded buf on the first connection and was
\* stopped by hand, its deadline timeout gone: calculateStats over every buffer
\* of at most MaxBuf snapshots that the handler can record.
Recordable == {d \in Snapshots : ~RenderThrows(d)}
Buffers == UNION {[1..n -> Recordable] : n \in 0..MaxBuf}

InitStats ==
    /\ recordingData \in Buffers
    /\ historyData = [cpu |-> MapSeq(recordingData, CpuValue),
                      memory |-> MapSeq(recordingData, MemValue),
                      upload |-> MapSeq(recordingData, UpValue),
                      download |-> MapSeq(recordingData, DownValue)]
    /\ received = [i \in 1..Len(recordingData) |->
                      [raw |-> Json(recordingData[i]), conn |-> 0]]
    /\ sockets = [s \in Slots |-> IF s = 1 THEN "open" ELSE "none"]
    /\ ws = 1
    /\ status = "connected"
    /\ reconnectTimers = <<>>
    /\ isRecording = FALSE
    /\ elapsed = 0
    /\ recordingTimer = 1
    /\ intervals = {}
    /\ deadlineTimers = <<>>
    /\ recordingText = "completed"
    /\ downloadDisabled = FALSE
    /\ exports = <<>>
    /\ saved = <<>>
    /\ alerts = 0
    /\ lastStats = <<>>
    /\ attempts = 0
    /\ ticks = 0

NextStats ==
    \/ Summarize
    \/ ClickDownload
    \/ \E i \in 1..MaxExports, captured \in BOOLEAN : CaptureSettles(i, captured)

SpecStats == InitStats /\ [][NextStats]_vars

(* ------------------------------------------------------------------ *)
(* Claims                                                              *)
(* ------------------------------------------------------------------ *)
\* the session status of the page
SessionStatus == IF isRecording THEN "Active"
                 ELSE IF recordingText = "completed" THEN "Completed" ELSE "Idle"

\* a delivered payload whose handler runs to its end
Ingested(raw) == JSONparse(raw).ok /\ ~RenderThrows(JSONparse(raw).value)

\* steps of the session
StartStep == ~isRecording /\ isRecording'
DeadlineStopStep == isRecording /\ ~isRecording' /\ Len(deadlineTimers') < Len(deadlineTimers)
ManualStopStep == isRecording /\ ~isRecording' /\ deadlineTimers' = deadlineTimers

\* C1: a session that is not stopped by hand leaves Active exactly when
\* RECORDING_DURATION ms have passed since its own start, and never earlier:
\* a session is never Active for longer, and the step by which a deadline
\* callback ends a session happens at elapsed = RECORDING_DURATION.
C1_DeadlineAtFiveMinutes ==
    /\ [](isRecording => elapsed <= RECORDING_DURATION)
    /\ [][DeadlineStopStep => elapsed = RECORDING_DURATION]_vars

\* C2: at most one deadline timer is pending, and none is pending when the
\* session is not Active (a manual stop cancels the timer of its start).
C2_OneDeadlineTimer ==
    /\ Len(deadlineTimers) <= 1
    /\ (~isRecording => deadlineTimers = <<>>)

\* the snapshots pushed into the histories since the first state, oldest first
PushedSince ==
    LET done == SelectSeq(received, LAMBDA e : Ingested(e.raw))
    IN  [i \in 1..Len(done) |-> JSONparse(done[i].raw).value]

\* the number of values pushed into each history in SpecWarm
PushedCount == Prefill + Len(PushedSince)

\* the last min(n, 60) of n pushed values
LastPushed(all) ==
    LET n == Len(all)
        k == IF n < MAX_HISTORY THEN n ELSE MAX_HISTORY
    IN  SubSeq(all, n - k + 1, n)

\* C3: after N pushes each rolling history has length min(N, 60) and holds the
\* last min(N, 60) pushed values in arrival order, oldest first (the values
\* pushed are those of the Prefill snapshots, then those of the log).
C3_RollingHistory ==
    LET K == IF PushedCount < MAX_HISTORY THEN PushedCount ELSE MAX_HISTORY
    IN  /\ Len(historyData.cpu) = K
        /\ Len(historyData.memory) = K
        /\ Len(historyData.upload) = K
        /\ Len(historyData.download) = K
        /\ historyData.cpu = LastPushed(WarmCpu \o MapSeq(PushedSince, CpuValue))
        /\ historyData.memory = LastPushed(WarmMemory \o MapSeq(PushedSince, MemValue))
        /\ historyData.upload = LastPushed(WarmUpload \o MapSeq(PushedSince, UpValue))
        /\ historyData.download = LastPushed(WarmDownload \o MapSeq(PushedSince, DownValue))

\* more than 60 values were pushed, the two newest with different values
C3_Witness ==
    /\ PushedCount > MAX_HISTORY
    /\ Len(historyData.cpu) = MAX_HISTORY
    /\ historyData.cpu[MAX_HISTORY] # historyData.cpu[MAX_HISTORY - 1]
    /\ historyData.upload[MAX_HISTORY] # historyData.upload[MAX_HISTORY - 1]

\* a step that delivers a message, and the payload it delivers
DeliveryStep == Len(received') = Len(received) + 1
Delivered == received'[Len(received')].raw

\* C4: the recording buffer is exactly the sequence, in delivery order, of the
\* snapshots ingested since the latest start while the session was Active: it
\* is empty before the first start, a start empties it, a message ingested
\* while Active is appended to it, and no other step changes it.
C4_BufferIsSessionLog ==
    /\ [](SessionStatus = "Idle" => recordingData = <<>>)
    /\ [][recordingData' =
            IF StartStep THEN <<>>
            ELSE IF DeliveryStep /\ isRecording /\ Ingested(Delivered)
                 THEN Append(recordingData, JSONparse(Delivered).value)
                 ELSE recordingData]_vars

\* a stopped session that recorded the first of two ingested snapshots only
C4_Witness ==
    /\ SessionStatus = "Completed"
    /\ Len(PushedSince) = 2
    /\ recordingData = <<PushedSince[1]>>
    /\ PushedSince[1] # PushedSince[2]

\* a step that runs startRecording: it arms a deadline timeout
ArmStep == Len(deadlineTimers') > Len(deadlineTimers)

\* C5: a start leaves the buffer empty whatever it held and whatever the status
\* was, and no start happens while a session is Active: a click on the toggle
\* in the Active state ends the session, arms nothing and keeps the buffer.
C5_StartClearsBuffer ==
    /\ [][ArmStep => ~isRecording /\ isRecording' /\ recordingData' = <<>>]_vars
    /\ [][StartStep => ArmStep /\ recordingData' = <<>>]_vars
    /\ [][isRecording /\ <<isRecording, recordingTimer, Len(deadlineTimers)>>' #
                            <<isRecording, recordingTimer, Len(deadlineTimers)>>
            => ~isRecording' /\ ~ArmStep /\ recordingData' = recordingData]_vars

\* a second session has started with an empty buffer while the export of the
\* first session's snapshots is still in flight
C5_Witness ==
    /\ isRecording
    /\ recordingData = <<>>
    /\ Len(deadlineTimers) = 2
    /\ exports # <<>>

\* the histories after one more snapshot was pushed into each of them
HistoriesWith(data) ==
    [cpu |-> LastPushed(Append(historyData.cpu, CpuValue(data))),
     memory |-> LastPushed(Append(historyData.memory, MemValue(data))),
     upload |-> LastPushed(Append(historyData.upload, UpValue(data))),
     download |-> LastPushed(Append(historyData.download, DownValue(data)))]

\* the message before this step's was no JSON and came over the same connection
AfterMalformed ==
    /\ received # <<>>
    /\ ~received[Len(received)].raw.json
    /\ received[Len(received)].conn = received'[Len(received')].conn

\* C6: a payload that is no JSON, at any time (also while recording is Active),
\* leaves the buffer and the four histories unchanged, and the next well-formed
\* message on the same connection is ingested as usual: one value is pushed into
\* each history and the snapshot is appended to the buffer if a session is Active.
C6_MalformedDropped ==
    /\ [][DeliveryStep /\ ~Delivered.json
            => UNCHANGED <<historyData, recordingData, isRecording>>]_vars
    /\ [][DeliveryStep /\ AfterMalformed /\ Ingested(Delivered)
            => /\ historyData' = HistoriesWith(Delivered.data)
               /\ recordingData' = IF isRecording
                                   THEN Append(recordingData, Delivered.data)
                                   ELSE recordingData]_vars

\* during a session, a payload that is no JSON was followed by a snapshot
C6_Witness ==
    /\ isRecording
    /\ Len(received) = 2
    /\ ~received[1].raw.json
    /\ received[2].raw = Json(SnapA)
    /\ received[1].conn = received[2].conn
    /\ recordingData = <<SnapA>>
    /\ historyData.cpu = <<10>>
    /\ historyData.download = <<2>>

\* steps of socket s
CloseStep(s) == sockets[s] # "closed" /\ sockets'[s] = "closed"
ErrorStep(s) == sockets[s] # "failed" /\ sockets'[s] = "failed"
ConnectStep(s) == sockets[s] # "connecting" /\ sockets'[s] = "connecting"
OpenStep(s) == sockets[s] = "connecting" /\ sockets'[s] = "open"

\* what the claims about a connection loss share: the close event shows
\* Disconnected and arms the 3000 ms reconnect timeout, the reconnection is made
\* when that timeout is due, an open shows Connected, and every snapshot that is
\* ingested adds exactly one entry to each history
DropAndReconnect ==
    /\ [][\A s \in Slots : CloseStep(s) =>
            /\ status' = "disconnected"
            /\ reconnectTimers' = Append(reconnectTimers, RECONNECT_DELAY)]_vars
    /\ [][\A s \in Slots : ConnectStep(s) =>
            /\ reconnectTimers # <<>>
            /\ Head(reconnectTimers) = 0
            /\ reconnectTimers' = Tail(reconnectTimers)]_vars
    /\ [][\A s \in Slots : OpenStep(s) => status' = "connected"]_vars
    /\ [][DeliveryStep =>
            historyData' = IF Ingested(Delivered) THEN HistoriesWith(Delivered.data)
                           ELSE historyData]_vars

\* C7 as stated: after a drop the state goes Connected -> Disconnected at the
\* close event, a reconnect attempt is made after the 3-second delay, and the
\* state passes through Connecting before it becomes Connected on open; each
\* delivered message around the boundary gives exactly one history entry.
C7_PassesThroughConnecting ==
    /\ DropAndReconnect
    /\ [][\A s \in Slots : ConnectStep(s) => status' = "connecting"]_vars

\* C7 as amended: the same, but the state shown has no Connecting: it stays
\* Disconnected while the new socket is connecting, until the open event.
C7_ReconnectAfterDrop ==
    /\ DropAndReconnect
    /\ [](status \in {"unset", "connected", "disconnected"})
    /\ [][\A s \in Slots : ConnectStep(s) =>
            status = "disconnected" /\ status' = "disconnected"]_vars
    /\ []((\E s \in Slots : sockets[s] = "connecting") /\ attempts > 0
            => status = "disconnected")

\* connected again after a drop, with one snapshot ingested before the drop and
\* one after the reconnection
C7_Witness ==
    /\ status = "connected"
    /\ attempts = 1
    /\ Len(received) = 2
    /\ received[1].conn = 0
    /\ received[2].conn = 1
    /\ Len(PushedSince) = 2
    /\ Len(historyData.cpu) = 2

\* no socket is connecting or open
Lost == \A s \in Slots : sockets[s] \notin {"connecting", "open"}

\* C8: reconnection has no attempt cap: after every connection loss a new
\* connection attempt is eventually made, and the state eventually becomes
\* Connected again, however many attempts failed before.
C8_ReconnectsForever ==
    /\ Lost ~> (\E s \in Slots : sockets[s] = "connecting")
    /\ (status = "disconnected") ~> (status = "connected")

\* connected again after MaxAttempts reconnections
C8_Witness ==
    /\ attempts = MaxAttempts
    /\ status = "connected"
    /\ \E s \in Slots : sockets[s] = "open"

\* C9 as stated: an error event is handled like a close event: it shows
\* Disconnected and schedules a reconnection attempt after the 3-second delay.
C9_ErrorLikeClose ==
    [][\A s \in Slots : ErrorStep(s) =>
        /\ status' = "disconnected"
        /\ reconnectTimers' = Append(reconnectTimers, RECONNECT_DELAY)]_vars

\* C9 as amended: an error event shows Disconnected like a close event but
\* schedules nothing; the reconnection after the 3-second delay is scheduled,
\* once, by the close event that follows the error.
C9_ErrorThenClose ==
    /\ [][\A s \in Slots : ErrorStep(s) =>
            /\ status' = "disconnected"
            /\ reconnectTimers' = reconnectTimers]_vars
    /\ [][\A s \in Slots : CloseStep(s) =>
            /\ status' = "disconnected"
            /\ reconnectTimers' = Append(reconnectTimers, RECONNECT_DELAY)]_vars
    /\ [](\A s \in Slots : sockets[s] = "failed" => ENABLED OnClose(s))
    /\ [](Len(reconnectTimers) <= 1)

\* an error has been handled and its close event has not come yet
C9_Witness ==
    /\ \E s \in Slots : sockets[s] = "failed"
    /\ status = "disconnected"
    /\ reconnectTimers = <<>>
    /\ attempts = 1

\* steps of an export request
ReportStep == Len(exports') > Len(exports)
NoDataStep == alerts' > alerts
Exportable == SessionStatus = "Completed" /\ recordingData # <<>>

C11_EmptyBufferFails ==
    [][lastStats' # lastStats /\ recordingData = <<>> =>
        /\ lastStats'[1].threw
        /\ lastStats'[1].value.cpu.avg.kind # "NaN"]_vars

\* the four metrics of a recording and the series of each over a buffer, a
\* snapshot without the field counting as 0
Metrics == {"cpu", "memory", "upload", "download"}
SeriesOf(buf, m) ==
    [i \in 1..Len(buf) |->
        CASE m = "cpu" -> IF buf[i].cpu.has THEN buf[i].cpu.percent ELSE 0
          [] m = "memory" -> IF buf[i].memory.has THEN buf[i].memory.percent ELSE 0
          [] m = "upload" -> IF buf[i].network.has
                             THEN buf[i].network.upload_bytes_per_sec \div 1024 ELSE 0
          [] m = "download" -> IF buf[i].network.has
                               THEN buf[i].network.download_bytes_per_sec \div 1024 ELSE 0]

RECURSIVE TotalTo(_, _)
TotalTo(ser, n) == IF n = 0 THEN 0 ELSE TotalTo(ser, n - 1) + ser[n]

\* the entry of a statistics value for a metric: <<entry>>, or <<>> if it has none
StatOf(st, m, which) ==
    CASE m = "cpu" /\ which = "avg" -> <<st.cpu.avg>>
      [] m = "cpu" /\ which = "min" -> <<st.cpu.min>>
      [] m = "cpu" /\ which = "max" -> <<st.cpu.max>>
      [] m = "memory" /\ which = "avg" -> <<st.memory.avg>>
      [] m = "memory" /\ which = "min" -> <<st.memory.min>>
      [] m = "memory" /\ which = "max" -> <<st.memory.max>>
      [] m = "upload" /\ which = "avg" -> <<st.network.uploadAvg>>
      [] m = "download" /\ which = "avg" -> <<st.network.downloadAvg>>
      [] OTHER -> <<>>

HasMean(st, m, ser) ==
    /\ StatOf(st, m, "avg") # <<>>
    /\ LET a == StatOf(st, m, "avg")[1]
       IN  a.kind = "number" /\ a.den > 0 /\ a.num * Len(ser) = a.den * TotalTo(ser, Len(ser))
HasMin(st, m, ser) ==
    /\ StatOf(st, m, "min") # <<>>
    /\ LET r == StatOf(st, m, "min")[1]
       IN  /\ r.kind = "number"
           /\ \E i \in 1..Len(ser) : ser[i] = r.v
           /\ \A i \in 1..Len(ser) : r.v <= ser[i]
HasMax(st, m, ser) ==
    /\ StatOf(st, m, "max") # <<>>
    /\ LET r == StatOf(st, m, "max")[1]
       IN  /\ r.kind = "number"
           /\ \E i \in 1..Len(ser) : ser[i] = r.v
           /\ \A i \in 1..Len(ser) : r.v >= ser[i]

\* the statistics of the buffer have been computed (the buffer does not change
\* once the session is stopped)
Summarized == lastStats # <<>> /\ recordingData # <<>>

\* C12 as stated: for every non-empty buffer and each of the four metrics the
\* statistics hold the mean, the minimum and the maximum of the metric's series,
\* a missing field counting as 0.
C12_MeanMinMaxOfAll ==
    Summarized =>
        /\ ~lastStats[1].threw
        /\ \A m \in Metrics :
            LET ser == SeriesOf(recordingData, m)
                st == lastStats[1].value
            IN  HasMean(st, m, ser) /\ HasMin(st, m, ser) /\ HasMax(st, m, ser)

\* C12 as amended: the statistics hold the mean of each of the four metrics, and
\* the minimum and the maximum of cpu percent and memory percent only; a missing
\* field counts as 0 and stays in the denominator; for a single snapshot every
\* entry equals that snapshot's value.
C12_MeanOfAllMinMaxOfTwo ==
    Summarized =>
        /\ ~lastStats[1].threw
        /\ \A m \in Metrics :
            LET ser == SeriesOf(recordingData, m)
                st == lastStats[1].value
            IN  /\ HasMean(st, m, ser)
                /\ m \in {"cpu", "memory"} => HasMin(st, m, ser) /\ HasMax(st, m, ser)
                /\ m \in {"upload", "download"} =>
                        StatOf(st, m, "min") = <<>> /\ StatOf(st, m, "max") = <<>>
                /\ Len(ser) = 1 =>
                    /\ StatOf(st, m, "avg")[1].num = ser[1] * StatOf(st, m, "avg")[1].den
                    /\ m \in {"cpu", "memory"} =>
                        StatOf(st, m, "min")[1].v = ser[1] /\ StatOf(st, m, "max")[1].v = ser[1]

\* the statistics of a three-snapshot buffer whose second snapshot has no fields
C12_Witness ==
    /\ recordingData = <<SnapA, SnapSparse, SnapB>>
    /\ lastStats # <<>>
    /\ lastStats[1].value.cpu.avg = [kind |-> "number", num |-> 30, den |-> 3]
    /\ lastStats[1].value.cpu.min.v = 0
    /\ lastStats[1].value.cpu.max.v = 20
    /\ lastStats[1].value.network.uploadAvg.num = 4
    /\ exports # <<>>

\* a step that runs the callback of a deadline timeout
DeadlineFireStep == Len(deadlineTimers') < Len(deadlineTimers)
\* the deadline that fires is not the one of a session that is Active: the
\* session it was armed for is Completed (a timeout armed by the Active session
\* fires when that session has lasted RECORDING_DURATION)
LateDeadline == ~isRecording \/ elapsed < RECORDING_DURATION

\* C13: a session leaves Active by exactly one of user stop and deadline, and a
\* deadline that fires after its session is Completed changes neither the
\* status nor the buffer of that session or of a later one.
C13_LateDeadlineInert ==
    /\ [][isRecording /\ ~isRecording' => (ManualStopStep /\ ~DeadlineStopStep)
                                          \/ (DeadlineStopStep /\ ~ManualStopStep)]_vars
    /\ [][DeadlineFireStep /\ LateDeadline =>
            UNCHANGED <<isRecording, recordingText, recordingData>>]_vars

\* a step that ingests a snapshot
IngestStep == DeliveryStep /\ Ingested(Delivered)

\* C14 as stated: when an ingested snapshot lacks the subsection of a tracked
\* metric, the history of that metric is left unchanged for that message; no
\* zero is appended in its place.
C14_MissingSkipped ==
    [][IngestStep =>
        /\ ~Delivered.data.cpu.has => historyData'.cpu = historyData.cpu
        /\ ~Delivered.data.memory.has => historyData'.memory = historyData.memory
        /\ ~Delivered.data.network.has =>
                /\ historyData'.upload = historyData.upload
                /\ historyData'.download = historyData.download]_vars

\* C14 as amended: when an ingested snapshot lacks the subsection of a tracked
\* metric, the value 0 is pushed into the history of that metric in its place
\* (the oldest entry leaving a full history), while the histories of the
\* metrics it has get their values.
C14_MissingPushedAsZero ==
    [][IngestStep =>
        LET d == Delivered.data
        IN  /\ historyData'.cpu = LastPushed(Append(historyData.cpu,
                    IF d.cpu.has THEN d.cpu.percent ELSE 0))
            /\ historyData'.memory = LastPushed(Append(historyData.memory,
                    IF d.memory.has THEN d.memory.percent ELSE 0))
            /\ historyData'.upload = LastPushed(Append(historyData.upload,
                    IF d.network.has THEN d.network.upload_bytes_per_sec \div 1024 ELSE 0))
            /\ historyData'.download = LastPushed(Append(historyData.download,
                    IF d.network.has THEN d.network.download_bytes_per_sec \div 1024
                    ELSE 0))]_vars

\* a snapshot without cpu was ingested into full histories: cpu got a 0, memory
\* and the network histories got the snapshot's values
C14_Witness ==
    /\ PushedCount > MAX_HISTORY
    /\ received[Len(received)].raw = Json(SnapNoCpu)
    /\ historyData.cpu[MAX_HISTORY] = 0
    /\ historyData.memory[MAX_HISTORY] = 50
    /\ historyData.upload[MAX_HISTORY] = 2
    /\ Len(historyData.cpu) = MAX_HISTORY

\* C15: the recording buffer changes only while the session is Active: the
\* step to Completed keeps it, and from then until the next start no message,
\* timer, connection event or export changes it.
C15_BufferFrozenAfterStop ==
    /\ [][~isRecording' => recordingData' = recordingData]_vars
    /\ [][recordingData' # recordingData => (isRecording /\ isRecording') \/ StartStep]_vars

\* after the session ended with one snapshot recorded, the connection was lost
\* and made again, a snapshot was ingested and the report was saved
C15_Witness ==
    /\ SessionStatus = "Completed"
    /\ deadlineTimers = <<>>
    /\ attempts > 0
    /\ Len(recordingData) = 1
    /\ Len(PushedSince) = 2
    /\ received[2].conn > 0
    /\ saved # <<>>

\* an export is suspended at its capture step
ExportInFlight == exports # <<>>
\* a step that resumes a suspended export
SettleStep == Len(exports') < Len(exports)

\* C16: while an export is suspended at its capture step, messages are still
\* ingested: a message delivered then updates the histories (and the buffer of
\* an Active session) exactly as outside an export, leaves the statistics the
\* export has computed as they are, and the report saved carries them.
C16_ExportDoesNotPauseIngestion ==
    /\ [](ExportInFlight /\ Len(received) < MaxMsgs =>
            \A s \in Slots : sockets[s] = "open" =>
                \A raw \in Payloads : ENABLED OnMessage(s, raw))
    /\ [][DeliveryStep /\ ExportInFlight =>
            /\ historyData' = IF Ingested(Delivered) THEN HistoriesWith(Delivered.data)
                              ELSE historyData
            /\ recordingData' = IF Ingested(Delivered) /\ isRecording
                                THEN Append(recordingData, Delivered.data)
                                ELSE recordingData
            /\ UNCHANGED <<exports, lastStats, saved>>]_vars
    /\ [][SettleStep =>
            \E i \in 1..Len(exports) :
                /\ saved'[1].stats = exports[i].stats
                /\ saved'[1].duration = exports[i].duration]_vars

\* the export of a first session (one snapshot, cpu 10) is still suspended while
\* a second session has recorded another snapshot (cpu 20)
C16_Witness ==
    /\ ExportInFlight
    /\ exports[1].duration = 1
    /\ exports[1].stats.cpu.avg = [kind |-> "number", num |-> 10, den |-> 1]
    /\ isRecording
    /\ recordingData = <<SnapB>>
    /\ historyData.cpu = <<10, 20>>

\* C17: a capture that fails does not abort the export: every suspended export
\* can settle with a failed capture, and when it settles, with or without the
\* picture, the report with the statistics it computed is given to pdf.save and
\* no "no data" signal is raised.
C17_CaptureFailureStillSaves ==
    /\ [](\A i \in 1..Len(exports) : ENABLED CaptureSettles(i, FALSE))
    /\ [][SettleStep =>
            /\ \E i \in 1..Len(exports), b \in BOOLEAN :
                    saved' = <<[duration |-> exports[i].duration,
                                stats |-> exports[i].stats, snapshot |-> b]>>
            /\ alerts' = alerts]_vars

\* a report of a two-snapshot session was saved without the picture
C17_Witness ==
    /\ saved # <<>>
    /\ ~saved[1].snapshot
    /\ saved[1].duration = 2
    /\ saved[1].stats = calculateStats(recordingData)
    /\ exports = <<>>

\* the sockets that have not been closed yet
LiveSockets == {s \in Slots : sockets[s] \in {"connecting", "open", "failed"}}

\* C18: across open, error and close events at most one reconnect timer is
\* pending and at most one socket is connecting or open; none is alive while a
\* reconnect timer is pending, the close of a socket schedules exactly one
\* connectWebSocket and an error schedules none.
C18_OneConnectionAtATime ==
    /\ [](Len(reconnectTimers) <= 1)
    /\ [](Cardinality(LiveSockets) <= 1)
    /\ [](reconnectTimers # <<>> => LiveSockets = {})
    /\ [][\A s \in Slots : CloseStep(s) => Len(reconnectTimers') = Len(reconnectTimers) + 1]_vars
    /\ [][\A s \in Slots : ErrorStep(s) => reconnectTimers' = reconnectTimers]_vars
    /\ [][\A s \in Slots : ConnectStep(s) =>
            LiveSockets = {} /\ Len(reconnectTimers') = Len(reconnectTimers) - 1]_vars

\* after MaxAttempts reconnections the newest socket has had an error: it alone
\* is alive, no second socket object was ever needed and no timer is pending
C18_Witness ==
    /\ attempts = MaxAttempts
    /\ Cardinality(LiveSockets) = 1
    /\ \E s \in Slots : sockets[s] = "failed"
    /\ \E s \in Slots : sockets[s] = "none"
    /\ status = "disconnected"
    /\ reconnectTimers = <<>>

\* C19: the one-second display interval is live exactly when the session is
\* Active: at most one interval exists, it is the one recordingTimer holds, every
\* start creates one and every step out of Active (manual stop or deadline)
\* clears it.
C19_IntervalLiveIffActive ==
    /\ [](intervals = IF isRecording THEN {recordingTimer} ELSE {})
    /\ [](Cardinality(intervals) <= 1)
    /\ [][StartStep => intervals = {} /\ Cardinality(intervals') = 1]_vars
    /\ [][isRecording /\ ~isRecording' =>
            /\ ManualStopStep \/ DeadlineStopStep
            /\ intervals = {recordingTimer}
            /\ intervals' = {}]_vars

\* a session that its own deadline has ended: no interval is left
C19_Witness ==
    /\ SessionStatus = "Completed"
    /\ elapsed = RECORDING_DURATION
    /\ deadlineTimers = <<>>
    /\ recordingTimer # 0
    /\ intervals = {}

\* a step that appends to the recording buffer
RecordStep == Len(recordingData') > Len(recordingData)

\* C20: after every message handler the four histories have the same length,
\* and a snapshot is appended to the buffer only by a message that also pushed
\* into the histories: a message whose handling aborts before the history
\* update changes neither.
C20_HistoriesAlignedWithBuffer ==
    /\ [](/\ Len(historyData.cpu) = Len(historyData.memory)
          /\ Len(historyData.memory) = Len(historyData.upload)
          /\ Len(historyData.upload) = Len(historyData.download))
    /\ [][RecordStep =>
            /\ DeliveryStep
            /\ recordingData' = Append(recordingData, Delivered.data)
            /\ historyData' = HistoriesWith(Delivered.data)]_vars
    /\ [][DeliveryStep /\ historyData' # HistoriesWith(Delivered.data) =>
            UNCHANGED <<historyData, recordingData>>]_vars

\* while recording, a snapshot whose rendering throws was dropped and another was
\* ingested into histories that are now full
C20_Witness ==
    /\ isRecording
    /\ Len(received) = 2
    /\ received[1].raw = Json(SnapNoFreq)
    /\ recordingData = <<SnapA>>
    /\ Len(historyData.download) = MAX_HISTORY
    /\ historyData.cpu[MAX_HISTORY] = 10

====
